---------------------------- MODULE Spec2Model ----------------------------
(***************************************************************************)
(* A model of the bestbots backend (src/server.py): the flat-file tables   *)
(* (invoices, invoice counters, orders, managers, uploaded files), the     *)
(* global lock _db_lock and the HTTP handlers that read and write them.    *)
(*                                                                         *)
(* Python strings are sequences of one-character strings, so that          *)
(* formatting (f"{m:02d}-{n:03d}"), parsing (split, int) and strip are     *)
(* computed the way the code computes them.  Python's None is the value    *)
(* None below.  A datetime is a record [year, month, ts], ts its           *)
(* timestamp() in seconds.  An ISO time stamp written by the code          *)
(* (utcnow().isoformat() + "Z") is the clock value it was taken at.        *)
(***************************************************************************)
EXTENDS Integers, Sequences, FiniteSets, TLC

VARIABLES
    invoices,     \* content of DB_INVOICES_FILE: a list of invoice rows
    counters,     \* content of DB_INVOICE_COUNTERS_FILE: "YYYY-MM" -> last suffix
    files,        \* names of the files in INVOICES_DIR
    orders,       \* content of DB_ORDERS_FILE: a list of order rows
    managers,     \* content of DB_MANAGERS_FILE: a list of manager rows
    now,          \* the clock read by datetime.utcnow()
    lock,         \* _db_lock: Free, or the coroutine suspended while holding it
    loopBlocked,  \* the event-loop thread is blocked in _db_lock.acquire()
    arrived,      \* create_order requests that ran their statements before the lock
    last,         \* the response of the request that completed last
    disk,         \* the JSON files as text, where the store functions are specified
    mem,          \* the last call of a store function: its path, its data, save or load
    writer,       \* the server process: its position in start-up and in a file write
    history       \* the body of the last GET /api/orders/history response

vars == <<invoices, counters, files, orders, managers, now, lock, loopBlocked,
          arrived, last, disk, mem, writer, history>>

---------------------------------------------------------------------------
(* Bounds of the model *)

MaxInvoices == 2
MaxSeq == 3
MaxOrders == 2
MaxInFlight == 2
MaxClock == 1
MaxManagers == 3
MaxRows == 2

---------------------------------------------------------------------------
(* Python values and string operations *)

None == <<"None">>

Digits == <<"0", "1", "2", "3", "4", "5", "6", "7", "8", "9">>

IsDigit(c) == \E d \in 1..10 : Digits[d] = c

DigitVal(c) == (CHOOSE d \in 1..10 : Digits[d] = c) - 1

\* str(n), f"{n}" for n >= 0
RECURSIVE Dec(_)
Dec(n) == IF n < 10 THEN <<Digits[n + 1]>>
          ELSE Dec(n \div 10) \o <<Digits[(n % 10) + 1]>>

RECURSIVE ZeroPad(_, _)
ZeroPad(s, w) == IF Len(s) >= w THEN s ELSE ZeroPad(<<"0">> \o s, w)

\* f"{n:0<w>d}" for n >= 0: at least w digits, never cut
Fmt(n, w) == ZeroPad(Dec(n), w)

\* int(s) raises ValueError unless s is a numeral
CanInt(s) == Len(s) > 0 /\ \A i \in 1..Len(s) : IsDigit(s[i])

RECURSIVE IntOf(_)
IntOf(s) == IF Len(s) = 0 THEN 0
            ELSE IntOf(SubSeq(s, 1, Len(s) - 1)) * 10 + DigitVal(s[Len(s)])

Quote == "\""
Backslash == "\\"
Newline == "\n"
Tab == "\t"
Return == "\r"

\* the characters str.strip() removes and json.loads skips between tokens
Whitespace == {" ", Tab, Newline, Return}

RECURSIVE LStrip(_)
LStrip(s) == IF Len(s) > 0 /\ s[1] \in Whitespace THEN LStrip(Tail(s)) ELSE s

RECURSIVE RStrip(_)
RStrip(s) == IF Len(s) > 0 /\ s[Len(s)] \in Whitespace
             THEN RStrip(SubSeq(s, 1, Len(s) - 1)) ELSE s

\* s.strip()
Strip(s) == RStrip(LStrip(s))

\* s.startswith(p)
StartsWith(s, p) == Len(s) >= Len(p) /\ SubSeq(s, 1, Len(p)) = p

\* the index of the first "-" of s at or after from, Len(s) + 1 if there is none
DashFrom(s, from) ==
    IF \E i \in from..Len(s) : s[i] = "-"
    THEN CHOOSE i \in from..Len(s) : s[i] = "-" /\ \A j \in from..(i - 1) : s[j] # "-"
    ELSE Len(s) + 1

\* s.split("-")[1], for an s that holds a "-"
SplitDash1(s) ==
    LET i == DashFrom(s, 1)
        j == DashFrom(s, i + 1)
    IN SubSeq(s, i + 1, j - 1)

\* the row with its key set to value (row[key] = value on a dict)
SetKey(row, key, value) ==
    [f \in (DOMAIN row) \cup {key} |-> IF f = key THEN value ELSE row[f]]

Max(a, b) == IF a >= b THEN a ELSE b

SetMax(S) == CHOOSE m \in S : \A x \in S : x <= m

\* list.pop(i)
RemoveAt(s, i) == SubSeq(s, 1, i - 1) \o SubSeq(s, i + 1, Len(s))

\* the index of the first row of rows whose id is id, 0 if there is none
IndexOfId(rows, id) ==
    IF \E i \in 1..Len(rows) : rows[i].id = id
    THEN CHOOSE i \in 1..Len(rows) : rows[i].id = id /\ \A j \in 1..(i - 1) : rows[j].id # id
    ELSE 0

---------------------------------------------------------------------------
(* The JSON files: json.dumps(data, ensure_ascii=False, indent=2), json.loads *)

\* The structured data of a file, each value with its JSON type. The pairs of
\* a dict stand in insertion order.
JNull == [t |-> "null"]
JBool(b) == [t |-> "bool", b |-> b]
JInt(n) == [t |-> "int", n |-> n]
JFloat(repr) == [t |-> "float", repr |-> repr]
JStr(s) == [t |-> "str", s |-> s]
JList(items) == [t |-> "list", items |-> items]
JDict(pairs) == [t |-> "dict", pairs |-> pairs]

\* EscapeChar that escapes the quote alone
EscapeChar_QuoteOnly(c) == IF c = Quote THEN <<Backslash, Quote>> ELSE <<c>>

\* the escape of a character in a string (ensure_ascii=False: characters
\* outside ASCII are written as they are)
EscapeChar(c) ==
    IF c = Quote THEN <<Backslash, Quote>>
    ELSE IF c = Backslash THEN <<Backslash, Backslash>>
    ELSE IF c = Newline THEN <<Backslash, "n">>
    ELSE IF c = Return THEN <<Backslash, "r">>
    ELSE IF c = Tab THEN <<Backslash, "t">>
    ELSE <<c>>

RECURSIVE EscapeString(_)
EscapeString(s) ==
    IF Len(s) = 0 THEN <<>> ELSE EscapeChar(Head(s)) \o EscapeString(Tail(s))

DumpString(s) == <<Quote>> \o EscapeString(s) \o <<Quote>>

DumpInt(n) == IF n < 0 THEN <<"-">> \o Dec(0 - n) ELSE Dec(n)

RECURSIVE Spaces(_)
Spaces(n) == IF n = 0 THEN <<>> ELSE <<" ">> \o Spaces(n - 1)

RECURSIVE dumps_at(_, _)
RECURSIVE DumpItems(_, _, _)
RECURSIVE DumpPairs(_, _, _)

\* the text of a value that stands at nesting depth level
dumps_at(v, level) ==
    CASE v.t = "null" -> <<"n", "u", "l", "l">>
      [] v.t = "bool" -> IF v.b THEN <<"t", "r", "u", "e">> ELSE <<"f", "a", "l", "s", "e">>
      [] v.t = "int" -> DumpInt(v.n)
      [] v.t = "float" -> v.repr
      [] v.t = "str" -> DumpString(v.s)
      [] v.t = "list" ->
            IF Len(v.items) = 0 THEN <<"[", "]">>
            ELSE <<"[", Newline>> \o DumpItems(v.items, 1, level + 1)
                 \o <<Newline>> \o Spaces(2 * level) \o <<"]">>
      [] v.t = "dict" ->
            IF Len(v.pairs) = 0 THEN <<"{", "}">>
            ELSE <<"{", Newline>> \o DumpPairs(v.pairs, 1, level + 1)
                 \o <<Newline>> \o Spaces(2 * level) \o <<"}">>

DumpItems(items, i, level) ==
    Spaces(2 * level) \o dumps_at(items[i], level)
    \o (IF i = Len(items) THEN <<>> ELSE <<",", Newline>> \o DumpItems(items, i + 1, level))

DumpPairs(pairs, i, level) ==
    Spaces(2 * level) \o DumpString(pairs[i].key) \o <<":", " ">>
    \o dumps_at(pairs[i].value, level)
    \o (IF i = Len(pairs) THEN <<>> ELSE <<",", Newline>> \o DumpPairs(pairs, i + 1, level))

\* json.dumps(v, ensure_ascii=False, indent=2)
dumps(v) == dumps_at(v, 0)

\* the outcome of a scan: none (JSONDecodeError), or a value and the position
\* after it
Failed == [ok |-> FALSE]
Parsed(value, pos) == [ok |-> TRUE, value |-> value, pos |-> pos]

RECURSIVE SkipWs(_, _)
SkipWs(text, pos) ==
    IF pos <= Len(text) /\ text[pos] \in Whitespace THEN SkipWs(text, pos + 1) ELSE pos

MatchAt(text, pos, word) ==
    pos + Len(word) - 1 <= Len(text) /\ SubSeq(text, pos, pos + Len(word) - 1) = word

HexDigits == {"0", "1", "2", "3", "4", "5", "6", "7", "8", "9",
              "a", "b", "c", "d", "e", "f", "A", "B", "C", "D", "E", "F"}

\* the character an escape letter stands for
Unescaped(e) ==
    IF e = "n" THEN Newline
    ELSE IF e = "r" THEN Return
    ELSE IF e = "t" THEN Tab
    ELSE e

\* the string whose characters start at pos, up to its closing quote (strict:
\* a control character inside a string is an error)
RECURSIVE ScanString(_, _, _)
ScanString(text, pos, acc) ==
    IF pos > Len(text) THEN Failed
    ELSE IF text[pos] = Quote THEN Parsed(acc, pos + 1)
    ELSE IF text[pos] \in {Newline, Return, Tab} THEN Failed
    ELSE IF text[pos] # Backslash THEN ScanString(text, pos + 1, Append(acc, text[pos]))
    ELSE IF pos + 1 > Len(text) THEN Failed
    ELSE IF text[pos + 1] \in {Quote, Backslash, "/", "n", "r", "t"}
    THEN ScanString(text, pos + 2, Append(acc, Unescaped(text[pos + 1])))
    ELSE IF /\ text[pos + 1] = "u"
            /\ pos + 5 <= Len(text)
            /\ \A i \in (pos + 2)..(pos + 5) : text[i] \in HexDigits
    THEN ScanString(text, pos + 6,
                    Append(acc, "U+" \o text[pos + 2] \o text[pos + 3]
                                     \o text[pos + 4] \o text[pos + 5]))
    ELSE Failed

RECURSIVE ScanDigits(_, _)
ScanDigits(text, pos) ==
    IF pos <= Len(text) /\ IsDigit(text[pos]) THEN ScanDigits(text, pos + 1) ELSE pos

\* NUMBER_RE: -?(0|[1-9]\d*)(\.\d+)?([eE][-+]?\d+)?
ParseNumber(text, pos) ==
    LET start == IF text[pos] = "-" THEN pos + 1 ELSE pos
        int_end == IF start <= Len(text) /\ text[start] = "0"
                   THEN start + 1 ELSE ScanDigits(text, start)
        frac_end == IF /\ int_end <= Len(text)
                       /\ text[int_end] = "."
                       /\ ScanDigits(text, int_end + 1) > int_end + 1
                    THEN ScanDigits(text, int_end + 1) ELSE int_end
        sign_end == IF frac_end + 1 <= Len(text) /\ text[frac_end + 1] \in {"-", "+"}
                    THEN frac_end + 2 ELSE frac_end + 1
        exp_end == IF /\ frac_end <= Len(text)
                      /\ text[frac_end] \in {"e", "E"}
                      /\ ScanDigits(text, sign_end) > sign_end
                   THEN ScanDigits(text, sign_end) ELSE frac_end
        magnitude == IntOf(SubSeq(text, start, int_end - 1))
    IN IF int_end = start THEN Failed
       ELSE IF exp_end > int_end THEN Parsed(JFloat(SubSeq(text, pos, exp_end - 1)), exp_end)
       ELSE Parsed(JInt(IF start > pos THEN 0 - magnitude ELSE magnitude), int_end)

\* dict[key] = value
DictPut(pairs, key, value) ==
    IF \E i \in 1..Len(pairs) : pairs[i].key = key
    THEN [i \in 1..Len(pairs) |->
             IF pairs[i].key = key THEN [key |-> key, value |-> value] ELSE pairs[i]]
    ELSE Append(pairs, [key |-> key, value |-> value])

RECURSIVE ParseValue(_, _)
RECURSIVE ParseArray(_, _, _)
RECURSIVE ParseObject(_, _, _)

\* scan_once: the value that starts at pos
ParseValue(text, pos) ==
    IF pos > Len(text) THEN Failed
    ELSE IF text[pos] = Quote
    THEN LET r == ScanString(text, pos + 1, <<>>)
         IN IF r.ok THEN Parsed(JStr(r.value), r.pos) ELSE Failed
    ELSE IF text[pos] = "["
    THEN LET p == SkipWs(text, pos + 1)
         IN IF p <= Len(text) /\ text[p] = "]" THEN Parsed(JList(<<>>), p + 1)
            ELSE ParseArray(text, p, <<>>)
    ELSE IF text[pos] = "{"
    THEN LET p == SkipWs(text, pos + 1)
         IN IF p <= Len(text) /\ text[p] = "}" THEN Parsed(JDict(<<>>), p + 1)
            ELSE ParseObject(text, p, <<>>)
    ELSE IF text[pos] = "-" \/ IsDigit(text[pos]) THEN ParseNumber(text, pos)
    ELSE IF MatchAt(text, pos, <<"n", "u", "l", "l">>) THEN Parsed(JNull, pos + 4)
    ELSE IF MatchAt(text, pos, <<"t", "r", "u", "e">>) THEN Parsed(JBool(TRUE), pos + 4)
    ELSE IF MatchAt(text, pos, <<"f", "a", "l", "s", "e">>) THEN Parsed(JBool(FALSE), pos + 5)
    ELSE Failed

\* JSONArray: the items from pos on, after those of acc
ParseArray(text, pos, acc) ==
    LET r == ParseValue(text, pos)
        p == SkipWs(text, r.pos)
        items == Append(acc, r.value)
    IN IF ~r.ok THEN Failed
       ELSE IF p > Len(text) THEN Failed
       ELSE IF text[p] = "," THEN ParseArray(text, SkipWs(text, p + 1), items)
       ELSE IF text[p] = "]" THEN Parsed(JList(items), p + 1)
       ELSE Failed

\* JSONObject: the pairs from pos on, after those of acc
ParseObject(text, pos, acc) ==
    LET k == IF pos <= Len(text) /\ text[pos] = Quote
             THEN ScanString(text, pos + 1, <<>>) ELSE Failed
        colon == SkipWs(text, k.pos)
        r == IF colon <= Len(text) /\ text[colon] = ":"
             THEN ParseValue(text, SkipWs(text, colon + 1)) ELSE Failed
        p == SkipWs(text, r.pos)
        pairs == DictPut(acc, k.value, r.value)
    IN IF ~k.ok THEN Failed
       ELSE IF ~r.ok THEN Failed
       ELSE IF p > Len(text) THEN Failed
       ELSE IF text[p] = "," THEN ParseObject(text, SkipWs(text, p + 1), pairs)
       ELSE IF text[p] = "}" THEN Parsed(JDict(pairs), p + 1)
       ELSE Failed

\* json.loads(text)
loads(text) ==
    LET r == ParseValue(text, SkipWs(text, 1))
    IN IF ~r.ok THEN Failed
       ELSE IF SkipWs(text, r.pos) <= Len(text) THEN Failed
       ELSE r

---------------------------------------------------------------------------
(* Inputs *)

\* the date strings of the requests, each written as the datetime it parses to
Mar2024 == [year |-> 2024, month |-> 3, ts |-> 1]
Nov2024 == [year |-> 2024, month |-> 11, ts |-> 2]
Mar2025 == [year |-> 2025, month |-> 3, ts |-> 3]

DateInputs == {Mar2024, Nov2024, Mar2025}

\* the date arguments of the invoice requests; None: no date is sent, and the
\* date is that of the clock, in March 2025
DateArgs == {Mar2024, None}

Num002 == <<"0", "3", "-", "0", "0", "2">>

NumberArgs == {None, <<" ">>, <<" ">> \o Num002}

FileArgs == {None, <<"a">>}

Shipped == <<"s", "h", "i", "p", "p", "e", "d">>

Bogus == <<"d", "o", "n", "e">>

\* the statuses the status requests send
StatusArgs == {Shipped, <<" ">> \o Shipped \o <<" ">>, Bogus}

MissingId == <<"n", "o">>

ReserveArgs == {None, <<"1">>, <<"0">>}

\* the same, and a word in capitals
ReserveInputs == ReserveArgs \cup {<<"T", "R", "U", "E">>}

\* datetime.utcnow()
utcnow == [year |-> 2025, month |-> 3, ts |-> 3 + now]

---------------------------------------------------------------------------
(* The lock and the responses *)

Free == [op |-> "free"]

Response(op, status, detail, number) ==
    [op |-> op, status |-> status, detail |-> detail, number |-> number]

\* ALLOWED_STATUSES with one status more
ALLOWED_STATUSES_Wider == {<<>>,
                           <<"p", "r", "o", "d", "u", "c", "t", "i", "o", "n">>,
                           <<"w", "a", "i", "t", "i", "n", "g">>,
                           <<"s", "h", "i", "p", "p", "e", "d">>,
                           <<"r", "e", "j", "e", "c", "t", "e", "d">>,
                           Bogus}

ALLOWED_STATUSES == {<<>>,
                     <<"p", "r", "o", "d", "u", "c", "t", "i", "o", "n">>,
                     <<"w", "a", "i", "t", "i", "n", "g">>,
                     <<"s", "h", "i", "p", "p", "e", "d">>,
                     <<"r", "e", "j", "e", "c", "t", "e", "d">>}

\* str.lower() on the letters of ASCII
UpperCase ==
    <<"A", "B", "C", "D", "E", "F", "G", "H", "I", "J", "K", "L", "M",
      "N", "O", "P", "Q", "R", "S", "T", "U", "V", "W", "X", "Y", "Z">>
LowerCase ==
    <<"a", "b", "c", "d", "e", "f", "g", "h", "i", "j", "k", "l", "m",
      "n", "o", "p", "q", "r", "s", "t", "u", "v", "w", "x", "y", "z">>
LowerChar(c) ==
    IF \E i \in 1..Len(UpperCase) : UpperCase[i] = c
    THEN LowerCase[CHOOSE i \in 1..Len(UpperCase) : UpperCase[i] = c]
    ELSE c
Lower(s) == [i \in 1..Len(s) |-> LowerChar(s[i])]

---------------------------------------------------------------------------
(* The invoice numbering sequencer *)

_parse_iso_date_or_now(date_str) ==
    IF date_str \in DateInputs THEN date_str ELSE utcnow

month_prefix(for_dt) == Fmt(for_dt.month, 2) \o <<"-">>

\* ScanSuffixes that counts the invoices under the month prefix
ScanSuffixes_Count(invs, for_dt) ==
    {Cardinality({j \in 1..Len(invs) : StartsWith(invs[j].number, month_prefix(for_dt))})}

\* the suffixes the scan of _next_invoice_number finds under the month prefix
ScanSuffixes(invs, for_dt) ==
    {IntOf(SplitDash1(invs[i].number)) :
        i \in {j \in 1..Len(invs) :
                 /\ StartsWith(invs[j].number, month_prefix(for_dt))
                 /\ CanInt(SplitDash1(invs[j].number))}}

\* _next_invoice_number that numbers after the length of the list
_next_invoice_number_ByLength(invs, for_dt) ==
    month_prefix(for_dt) \o Fmt(Len(invs) + 1, 3)

_next_invoice_number(invs, for_dt) ==
    LET max_suffix == SetMax(ScanSuffixes(invs, for_dt) \cup {0})
    IN month_prefix(for_dt) \o Fmt(max_suffix + 1, 3)

period_key(for_dt) == Fmt(for_dt.year, 4) \o <<"-">> \o Fmt(for_dt.month, 2)

\* counters.get(key, 0)
CounterGet(cnt, key) == IF key \in DOMAIN cnt THEN cnt[key] ELSE 0

\* counters[key] = value on a dict started afresh
CounterPut_Afresh(cnt, key, value) == [k \in {key} |-> value]

\* counters[key] = value
CounterPut(cnt, key, value) ==
    [k \in (DOMAIN cnt) \cup {key} |-> IF k = key THEN value ELSE cnt[k]]

\* next_suffix without the scan of the list: the counter of the period alone
next_suffix_CounterOnly(cnt, invs, for_dt) ==
    CounterGet(cnt, period_key(for_dt)) + 1

\* next_suffix without the counter: the scan of the list alone
next_suffix_ScanOnly(cnt, invs, for_dt) ==
    IntOf(SplitDash1(_next_invoice_number(invs, for_dt)))

\* next_suffix of _reserve_next_invoice_number
next_suffix(cnt, invs, for_dt) ==
    LET preview_suffix == IntOf(SplitDash1(_next_invoice_number(invs, for_dt))) - 1
        lastv == CounterGet(cnt, period_key(for_dt))
    IN Max(lastv, preview_suffix) + 1

\* reserved_number with the sequence padded to two digits
reserved_number_TwoDigits(cnt, invs, for_dt) ==
    Fmt(for_dt.month, 2) \o <<"-">> \o Fmt(next_suffix(cnt, invs, for_dt), 2)

\* the number _reserve_next_invoice_number returns
reserved_number(cnt, invs, for_dt) ==
    Fmt(for_dt.month, 2) \o <<"-">> \o Fmt(next_suffix(cnt, invs, for_dt), 3)

\* the counters file after _reserve_next_invoice_number
reserved_counters(cnt, invs, for_dt) ==
    CounterPut(cnt, period_key(for_dt), next_suffix(cnt, invs, for_dt))

\* _invoice_number_exists that finds nothing
_invoice_number_exists_Never(invs, number) == FALSE

_invoice_number_exists(invs, number) ==
    \E i \in 1..Len(invs) : invs[i].number = number

\* The reservation made under the lock by a request: the counters file is
\* written and the number is handed out.
_reserve_next_invoice_number(for_dt) ==
    /\ next_suffix(counters, invoices, for_dt) <= MaxSeq
    /\ counters' = reserved_counters(counters, invoices, for_dt)

invoice_id(invs, when) ==
    <<"i", "n", "v", "_">> \o Dec(when.ts) \o <<"_">> \o Dec(Len(invs) + 1)

stored_name(number, original_name) == number \o <<"_">> \o original_name

public_url_of(stored_filename) ==
    IF stored_filename = None THEN None ELSE <<"/static/invoices/">> \o stored_filename

invoice_record(invs, when, number, order_id, status, stored_filename, public_url) ==
    [id |-> invoice_id(invs, when),
     number |-> number,
     order_id |-> order_id,
     status |-> status,
     date |-> when,
     file_name |-> stored_filename,
     file_url |-> public_url,
     created_at |-> now]

---------------------------------------------------------------------------
(* The invoice handlers *)

\* number and str(number).strip(): an explicit number was given
HasNumber(number) == number # None /\ Len(Strip(number)) > 0

\* POST /api/invoices up to its await of file.read(), or to its end when no
\* file is sent
create_invoice(order_id, date, number, file) ==
    LET when == _parse_iso_date_or_now(date)
        explicit == HasNumber(number)
        num == IF explicit THEN Strip(number) ELSE reserved_number(counters, invoices, when)
    IN
    /\ lock = Free
    /\ ~loopBlocked
    /\ Len(invoices) < MaxInvoices
    /\ UNCHANGED <<orders, managers, now, loopBlocked, writer, history, disk, mem, arrived>>
    /\ IF explicit /\ _invoice_number_exists(invoices, num)
       THEN /\ last' = Response("create_invoice", 400, "Invoice number already exists", None)
            /\ UNCHANGED <<invoices, counters, files, lock>>
       ELSE /\ IF explicit
               THEN UNCHANGED counters
               ELSE _reserve_next_invoice_number(when)
            /\ IF file = None
               THEN /\ invoices' = Append(invoices,
                          invoice_record(invoices, when, num, order_id, <<>>, None, None))
                    /\ last' = Response("create_invoice", 200, "ok", num)
                    /\ UNCHANGED <<files, lock>>
               ELSE /\ lock' = [op |-> "create_invoice", when |-> when, number |-> num,
                                order_id |-> order_id,
                                stored_filename |-> stored_name(num, file)]
                    /\ UNCHANGED <<invoices, files, last>>

\* POST /api/invoices after its await: the file is written, the row appended
\* and the lock released
create_invoice_resume ==
    /\ lock.op = "create_invoice"
    /\ ~loopBlocked
    /\ files' = files \cup {lock.stored_filename}
    /\ invoices' = Append(invoices,
           invoice_record(invoices, lock.when, lock.number, lock.order_id, <<>>,
                          lock.stored_filename, public_url_of(lock.stored_filename)))
    /\ last' = Response("create_invoice", 200, "ok", lock.number)
    /\ lock' = Free
    /\ UNCHANGED <<counters, orders, managers, now, loopBlocked, writer, history, disk, mem, arrived>>

\* GET /api/invoices/next-number
preview_next_invoice_number(date, reserve) ==
    LET when == _parse_iso_date_or_now(date)
        do_reserve == IF reserve = None THEN TRUE
                      ELSE Lower(reserve) \in {<<"1">>, <<"t", "r", "u", "e">>,
                                                <<"y", "e", "s">>}
    IN
    /\ lock = Free
    /\ UNCHANGED <<invoices, files, orders, managers, now, lock, loopBlocked, writer, history, disk, mem, arrived>>
    /\ IF do_reserve
       THEN /\ _reserve_next_invoice_number(when)
            /\ last' = Response("next_number_reserve", 200, "ok",
                                reserved_number(counters, invoices, when))
       ELSE /\ UNCHANGED counters
            /\ last' = Response("next_number_preview", 200, "ok",
                                _next_invoice_number(invoices, when))

\* POST /api/invoices/json
create_invoice_json(payload) ==
    LET when == _parse_iso_date_or_now(payload.date)
        explicit == payload.number # None /\ Len(payload.number) > 0
        num == IF explicit THEN Strip(payload.number)
               ELSE reserved_number(counters, invoices, when)
        status == IF Strip(payload.status) \in ALLOWED_STATUSES
                  THEN Strip(payload.status) ELSE <<>>
    IN
    /\ lock = Free
    /\ Len(invoices) < MaxInvoices
    /\ UNCHANGED <<files, orders, managers, now, lock, loopBlocked, writer, history, disk, mem, arrived>>
    /\ IF explicit /\ Len(num) = 0
       THEN /\ last' = Response("create_invoice_json", 400, "Field 'number' cannot be empty", None)
            /\ UNCHANGED <<invoices, counters>>
       ELSE IF explicit /\ _invoice_number_exists(invoices, num)
       THEN /\ last' = Response("create_invoice_json", 400, "Invoice number already exists", None)
            /\ UNCHANGED <<invoices, counters>>
       ELSE /\ IF explicit
               THEN UNCHANGED counters
               ELSE _reserve_next_invoice_number(when)
            /\ invoices' = Append(invoices,
                   invoice_record(invoices, when, num, payload.order_id, status,
                                  None, payload.file_url))
            /\ last' = Response("create_invoice_json", 200, "ok", num)

\* PATCH /api/invoices/{inv_id}/file up to its await of file.read()
attach_invoice_file(inv_id, file) ==
    LET i == IndexOfId(invoices, inv_id)
    IN
    /\ lock = Free
    /\ ~loopBlocked
    /\ UNCHANGED <<invoices, counters, files, orders, managers, now,
                   loopBlocked, writer, history, disk, mem, arrived>>
    /\ IF i = 0
       THEN /\ last' = Response("attach_invoice_file", 404, "Invoice not found", None)
            /\ UNCHANGED lock
       ELSE /\ lock' = [op |-> "attach_invoice_file", index |-> i,
                        stored_filename |-> stored_name(invoices[i].number, file)]
            /\ UNCHANGED last

\* PATCH /api/invoices/{inv_id}/file after its await
attach_invoice_file_resume ==
    /\ lock.op = "attach_invoice_file"
    /\ ~loopBlocked
    /\ files' = files \cup {lock.stored_filename}
    /\ invoices' = [invoices EXCEPT ![lock.index] =
           [@ EXCEPT !.file_name = lock.stored_filename,
                     !.file_url = public_url_of(lock.stored_filename)]]
    /\ last' = Response("attach_invoice_file", 200, "ok", None)
    /\ lock' = Free
    /\ UNCHANGED <<counters, orders, managers, now, loopBlocked, writer, history, disk, mem, arrived>>

\* PATCH /api/invoices/{inv_id}/status
update_invoice_status(inv_id, payload) ==
    LET status == Strip(payload.status)
        i == IndexOfId(invoices, inv_id)
    IN
    /\ UNCHANGED <<counters, files, orders, managers, now, lock, loopBlocked, writer, history, disk, mem, arrived>>
    /\ IF status \notin ALLOWED_STATUSES
       THEN /\ last' = Response("update_invoice_status", 400, "Invalid status", None)
            /\ UNCHANGED invoices
       ELSE /\ lock = Free
            /\ IF i = 0
               THEN /\ last' = Response("update_invoice_status", 404, "Invoice not found", None)
                    /\ UNCHANGED invoices
               ELSE /\ invoices' = [invoices EXCEPT ![i] =
                          SetKey([@ EXCEPT !.status = status], "updated_at", now)]
                    /\ last' = Response("update_invoice_status", 200, "ok", None)

\* DELETE /api/invoices/{inv_id}
delete_invoice(inv_id) ==
    LET i == IndexOfId(invoices, inv_id)
    IN
    /\ lock = Free
    /\ UNCHANGED <<counters, orders, managers, now, lock, loopBlocked, writer, history, disk, mem, arrived>>
    /\ IF i = 0
       THEN /\ last' = Response("delete_invoice", 404, "Invoice not found", None)
            /\ UNCHANGED <<invoices, files>>
       ELSE /\ files' = IF invoices[i].file_name # None
                        THEN files \ {invoices[i].file_name} ELSE files
            /\ invoices' = RemoveAt(invoices, i)
            /\ last' = Response("delete_invoice", 200, "ok", None)

\* An async handler (create_invoice, attach_invoice_file) started by the event
\* loop while a suspended coroutine holds _db_lock: its `with _db_lock` blocks
\* the event-loop thread.
event_loop_blocked ==
    /\ lock # Free
    /\ ~loopBlocked
    /\ loopBlocked' = TRUE
    /\ UNCHANGED <<invoices, counters, files, orders, managers, now,
                   lock, arrived, last, disk, mem, writer, history>>

\* the ids a request may name: those of the stored invoices and one of none
InvoiceIdArgs == {invoices[i].id : i \in 1..Len(invoices)} \cup {MissingId}

JsonPayloads == [date : DateArgs, number : NumberArgs \cup {<<>>}, order_id : {None},
                 file_url : {None}, status : {<<>>}]

---------------------------------------------------------------------------
(* The order handlers *)

OrderId1 == <<"o", "1">>

\* the payloads of POST /api/orders: an id (empty: one is generated), a company
\* name and a status
OrderPayloads == {[id |-> OrderId1, company_name |-> <<"A">>, status |-> <<>>],
                  [id |-> <<" ">> \o OrderId1, company_name |-> <<"B">>, status |-> <<>>],
                  [id |-> <<>>, company_name |-> <<"A">>, status |-> <<>>]}

\* the status a create stores: the stripped one if allowed, else ""
stored_status(payload) ==
    IF Strip(payload.status) \in ALLOWED_STATUSES THEN Strip(payload.status) ELSE <<>>

\* f"order_{timestamp_ms}_{random_suffix}"
generated_order_id(random_suffix) ==
    <<"o", "r", "d", "e", "r", "_">> \o Dec(now) \o <<"_">> \o random_suffix

RandomSuffixes == {<<"r">>}

\* the order row create_order builds, before its time stamps
order_record(order_id, payload) ==
    [id |-> order_id,
     company_name |-> Strip(payload.company_name),
     name_company |-> <<>>,
     company_bin |-> <<>>,
     bin_company |-> <<>>,
     manager_id |-> <<>>,
     status |-> stored_status(payload),
     full_data |-> <<>>]

\* the time stamps of the row written over the row existing (None: a new row)
stamped(order, existing, now_iso) ==
    IF existing # None
    THEN SetKey(SetKey(order, "created_at", existing.created_at), "updated_at", now_iso)
    ELSE SetKey(SetKey(order, "created_at", now_iso), "updated_at", now_iso)

\* POST /api/orders before `with _db_lock`: the payload is read and now_iso
\* taken
create_order_begin(payload) ==
    /\ Cardinality(arrived) < MaxInFlight
    /\ arrived' = arrived \cup {[payload |-> payload, now_iso |-> now]}
    /\ UNCHANGED <<invoices, counters, files, orders, managers, now, lock, loopBlocked, writer, history,
                   last, disk, mem>>

\* POST /api/orders under the lock
create_order(req, random_suffix) ==
    LET given == Strip(req.payload.id)
        order_id == IF Len(given) = 0 \/ StartsWith(given, <<"t", "e", "m", "p", "_">>)
                    THEN generated_order_id(random_suffix) ELSE given
        existing_index == IndexOfId(orders, order_id)
        order == stamped(order_record(order_id, req.payload),
                         IF existing_index = 0 THEN None ELSE orders[existing_index],
                         req.now_iso)
    IN
    /\ req \in arrived
    /\ lock = Free
    /\ existing_index = 0 => Len(orders) < MaxOrders
    /\ arrived' = arrived \ {req}
    /\ orders' = IF existing_index # 0
                 THEN [orders EXCEPT ![existing_index] = order]
                 ELSE Append(orders, order)
    /\ last' = Response("create_order", 200, "ok", order_id)
    /\ UNCHANGED <<invoices, counters, files, managers, now, lock, loopBlocked, writer, history, disk, mem>>

\* PATCH /api/orders/{order_id}/status
update_order_status(order_id, payload) ==
    LET status == Strip(payload.status)
        order_index == IndexOfId(orders, order_id)
    IN
    /\ UNCHANGED <<invoices, counters, files, managers, now, lock, loopBlocked, writer, history, disk, mem, arrived>>
    /\ IF status \notin ALLOWED_STATUSES
       THEN /\ last' = Response("update_order_status", 400, "Invalid status", None)
            /\ UNCHANGED orders
       ELSE /\ lock = Free
            /\ IF order_index = 0
               THEN /\ last' = Response("update_order_status", 404, "Order not found", None)
                    /\ UNCHANGED orders
               ELSE /\ orders' = [orders EXCEPT ![order_index] =
                          [@ EXCEPT !.status = status, !.updated_at = now]]
                    /\ last' = Response("update_order_status", 200, "ok", None)

\* DELETE /api/orders/{order_id}
delete_order(order_id) ==
    LET order_index == IndexOfId(orders, order_id)
    IN
    /\ lock = Free
    /\ UNCHANGED <<invoices, counters, files, managers, now, lock, loopBlocked, writer, history, disk, mem, arrived>>
    /\ IF order_index = 0
       THEN /\ last' = Response("delete_order", 404, "Order not found", None)
            /\ UNCHANGED orders
       ELSE /\ orders' = RemoveAt(orders, order_index)
            /\ last' = Response("delete_order", 200, "ok", None)

\* time passes
Tick ==
    /\ now < MaxClock
    /\ now' = now + 1
    /\ UNCHANGED <<invoices, counters, files, orders, managers, lock, loopBlocked, writer, history, disk, mem,
                   arrived, last>>

OrderIdArgs == {orders[i].id : i \in 1..Len(orders)} \cup {MissingId}

---------------------------------------------------------------------------
(* The manager handlers *)

\* the table _seed_default_managers_if_empty writes at start-up
DefaultManagers == <<[id |-> <<"m", "1">>, name |-> <<"Aigerim">>],
                     [id |-> <<"m", "2">>, name |-> <<"Makpal">>]>>

ManagerPayloads == [id : {<<"m", "1">>, <<"m", "2">>, <<" ", "m", "3">>, <<"m", "4">>, <<" ">>},
                    name : {<<"A">>, <<"B">>, <<>>}]

\* POST /api/managers
create_or_update_manager(payload) ==
    LET manager_id == Strip(payload.id)
        name == Strip(payload.name)
        i == IndexOfId(managers, manager_id)
    IN
    /\ UNCHANGED <<invoices, counters, files, orders, now, lock, loopBlocked, writer, history, disk, mem, arrived>>
    /\ IF Len(manager_id) = 0
       THEN /\ last' = Response("create_or_update_manager", 400, "Field 'id' is required", None)
            /\ UNCHANGED managers
       ELSE IF Len(name) = 0
       THEN /\ last' = Response("create_or_update_manager", 400, "Field 'name' is required", None)
            /\ UNCHANGED managers
       ELSE /\ lock = Free
            /\ i = 0 => Len(managers) < MaxManagers
            /\ managers' = IF i # 0
                           THEN [managers EXCEPT ![i].name = name]
                           ELSE Append(managers, [id |-> manager_id, name |-> name])
            /\ last' = Response("create_or_update_manager", 200,
                                IF i # 0 THEN "updated" ELSE "created", manager_id)

\* GET /api/managers
list_managers ==
    /\ lock = Free
    /\ last' = Response("list_managers", 200, "ok", Dec(Len(managers)))
    /\ UNCHANGED <<invoices, counters, files, orders, managers, now, lock, loopBlocked, writer, history, disk, mem,
                   arrived>>

\* DELETE /api/managers/{manager_id}: the application registers no such route
\* (the manager routes are POST and GET /api/managers), so the router answers
\* 404 Not Found and no handler runs.
delete_manager(manager_id) ==
    /\ last' = Response("delete_manager", 404, "Not Found", None)
    /\ UNCHANGED <<invoices, counters, files, orders, managers, now, lock, loopBlocked, writer, history, disk, mem,
                   arrived>>

ManagerIdArgs == {managers[i].id : i \in 1..Len(managers)} \cup {MissingId}

---------------------------------------------------------------------------
(* The store functions on the JSON files *)

DB_FILE == "records.json"
DB_ORDERS_FILE == "orders.json"
DB_INVOICE_COUNTERS_FILE == "invoice_counters.json"

\* a file of the data directory that holds text
FileOf(text) == [exists |-> TRUE, text |-> text]

\* a byte sequence that is no UTF-8, as one character of a file's content
InvalidByte == "0xFF"

\* a file that exists and that the process may not read
Denied == [exists |-> TRUE, text |-> <<>>, denied |-> TRUE]

\* an exception that leaves a function
Raised(exc) == [t |-> "raised", exc |-> exc]

\* file_path.read_text(encoding="utf-8"): the text, or the exception raised
read_text(file) ==
    IF "denied" \in DOMAIN file THEN Raised("OSError")
    ELSE IF \E i \in 1..Len(file.text) : file.text[i] = InvalidByte
    THEN Raised("UnicodeDecodeError")
    ELSE JStr(file.text)

\* the exceptions _load_list, _load_records and _load_dict catch
\* (json.JSONDecodeError is what a failed loads raises)
CaughtByLoad == {"JSONDecodeError", "IOError", "OSError"}

\* what _load_list gives for a file: [] when the file is missing, blank, not
\* to be read or unreadable as JSON, or when its JSON is no list; the
\* exception when read_text raises one that the function does not catch
loaded_list(file) ==
    IF ~file.exists THEN JList(<<>>)
    ELSE LET raw == read_text(file)
         IN IF raw.t = "raised"
            THEN IF raw.exc \in CaughtByLoad THEN JList(<<>>) ELSE raw
            ELSE IF Len(raw.s) = 0 \/ Len(Strip(raw.s)) = 0 THEN JList(<<>>)
            ELSE LET r == loads(raw.s)
                 IN IF ~r.ok THEN JList(<<>>)
                    ELSE IF r.value.t = "list" THEN r.value ELSE JList(<<>>)

\* what _load_dict gives for a file
loaded_dict(file) ==
    IF ~file.exists THEN JDict(<<>>)
    ELSE LET raw == read_text(file)
         IN IF raw.t = "raised"
            THEN IF raw.exc \in CaughtByLoad THEN JDict(<<>>) ELSE raw
            ELSE IF Len(raw.s) = 0 \/ Len(Strip(raw.s)) = 0 THEN JDict(<<>>)
            ELSE LET r == loads(raw.s)
                 IN IF ~r.ok THEN JDict(<<>>)
                    ELSE IF r.value.t = "dict" THEN r.value ELSE JDict(<<>>)

_save_list(file_path, items) ==
    /\ disk' = [disk EXCEPT ![file_path] = FileOf(dumps(items))]
    /\ mem' = [path |-> file_path, data |-> items, by |-> "save"]
    /\ UNCHANGED <<invoices, counters, files, orders, managers, now, lock, loopBlocked, writer, history,
                   arrived, last>>

_load_list(file_path) ==
    /\ mem' = [path |-> file_path, data |-> loaded_list(disk[file_path]),
               by |-> "load"]
    /\ UNCHANGED <<invoices, counters, files, orders, managers, now, lock, loopBlocked, writer, history,
                   arrived, last, disk>>

_save_records(records) ==
    /\ disk' = [disk EXCEPT ![DB_FILE] = FileOf(dumps(records))]
    /\ mem' = [path |-> DB_FILE, data |-> records, by |-> "save"]
    /\ UNCHANGED <<invoices, counters, files, orders, managers, now, lock, loopBlocked, writer, history,
                   arrived, last>>

_load_records ==
    /\ mem' = [path |-> DB_FILE, data |-> loaded_list(disk[DB_FILE]), by |-> "load"]
    /\ UNCHANGED <<invoices, counters, files, orders, managers, now, lock, loopBlocked, writer, history,
                   arrived, last, disk>>

_save_dict(file_path, data) ==
    /\ disk' = [disk EXCEPT ![file_path] = FileOf(dumps(data))]
    /\ mem' = [path |-> file_path, data |-> data, by |-> "save"]
    /\ UNCHANGED <<invoices, counters, files, orders, managers, now, lock, loopBlocked, writer, history,
                   arrived, last>>

_load_dict(file_path) ==
    /\ mem' = [path |-> file_path, data |-> loaded_dict(disk[file_path]),
               by |-> "load"]
    /\ UNCHANGED <<invoices, counters, files, orders, managers, now, lock, loopBlocked, writer, history,
                   arrived, last, disk>>

\* a key and its value in a dict
Pair(key, value) == [key |-> key, value |-> value]

\* a string with a quote, a backslash, a line break and a letter outside ASCII
OddString == <<"a", Quote, Backslash, Newline, "U+0416", " ">>

\* rows as the handlers save them: strings, numbers, nested lists and dicts
RowInputs ==
    {JDict(<<Pair(<<"i", "d">>, JStr(<<"o", "1">>)),
             Pair(<<"n">>, JInt(12)),
             Pair(<<"f", "u", "l", "l", "_", "d", "a", "t", "a">>, JDict(<<>>)),
             Pair(<<>>, JBool(FALSE)),
             Pair(<<"p">>, JFloat(<<"1", ".", "5">>)),
             Pair(<<"z">>, JInt(0))>>),
     JDict(<<Pair(<<"i", "d">>, JStr(OddString)),
             Pair(<<"n">>, JInt(0 - 3)),
             Pair(OddString, JDict(<<Pair(<<"k">>, JList(<<JNull, JBool(TRUE), JStr(<<>>)>>))>>)),
             Pair(<<"f", "i", "l", "e", "s">>, JList(<<>>))>>)}

\* the lists of at most n rows
RECURSIVE ListsUpTo(_)
ListsUpTo(n) ==
    IF n = 0 THEN {<<>>}
    ELSE ListsUpTo(n - 1) \cup {Append(l, row) : l \in ListsUpTo(n - 1), row \in RowInputs}

ListInputs == {JList(l) : l \in ListsUpTo(MaxRows)}

RecordInputs == {JList(<<>>), JList(<<JInt(7), JStr(<<Tab>>)>>)}

DictInputs ==
    {JDict(<<>>),
     JDict(<<Pair(<<"2", "0", "2", "4", "-", "0", "3">>, JInt(1))>>),
     JDict(<<Pair(<<"2", "0", "2", "4", "-", "0", "3">>, JInt(12)),
             Pair(<<"2", "0", "2", "5", "-", "0", "3">>, JInt(1))>>)}
----------------------------------------------------------------------------
(* The order history *)

\* the fields of an invoice that the history shows
shown_invoice(inv) ==
    [id |-> inv.id, number |-> inv.number, status |-> inv.status, date |-> inv.date,
     file_url |-> inv.file_url]

\* `if order_id`: the invoice names an order
has_order(inv) == inv.order_id # None /\ Len(inv.order_id) > 0

\* invoices_by_order.get(order_id, [])
invoices_by_order(invs, order_id) ==
    SelectSeq(invs, LAMBDA inv : has_order(inv) /\ inv.order_id = order_id)

invoices_without_order(invs) == SelectSeq(invs, LAMBDA inv : ~has_order(inv))

\* managers_dict.get(manager_id, ""): of the rows with one id the last counts
manager_name(mgrs, manager_id) ==
    LET hits == {i \in 1..Len(mgrs) : mgrs[i].id = manager_id}
    IN IF hits = {} THEN <<>> ELSE mgrs[SetMax(hits)].name

\* the entry of an order, with the invoices that name it
order_entry(order, invs, mgrs) ==
    LET order_invoices == invoices_by_order(invs, order.id)
    IN [id |-> order.id,
        company_name |-> order.company_name,
        company_bin |-> order.company_bin,
        manager_id |-> order.manager_id,
        status |-> order.status,
        created_at |-> order.created_at,
        updated_at |-> order.updated_at,
        manager_name |-> manager_name(mgrs, order.manager_id),
        invoices |-> [i \in 1..Len(order_invoices) |-> shown_invoice(order_invoices[i])]]

\* the entry that stands for an invoice without an order
virtual_entry(inv) ==
    [id |-> <<"n", "o", "_", "o", "r", "d", "e", "r", "_">> \o inv.id,
     company_name |-> <<>>,
     company_bin |-> <<>>,
     manager_id |-> <<>>,
     manager_name |-> <<>>,
     status |-> <<>>,
     created_at |-> inv.created_at,
     invoices |-> <<shown_invoice(inv)>>]

\* list.sort(key=created_at, reverse=True): descending, and entries of one
\* created_at stay in the order they had
RECURSIVE sort_reverse(_)
sort_reverse(entries) ==
    IF Len(entries) = 0 THEN <<>>
    ELSE LET x == entries[Len(entries)]
             sorted == sort_reverse(SubSeq(entries, 1, Len(entries) - 1))
             k == Cardinality({i \in 1..Len(sorted) : sorted[i].created_at >= x.created_at})
         IN SubSeq(sorted, 1, k) \o <<x>> \o SubSeq(sorted, k + 1, Len(sorted))

\* "orders" of the body of GET /api/orders/history
orders_with_invoices(ords, invs, mgrs) ==
    LET standalone == invoices_without_order(invs)
    IN sort_reverse([i \in 1..Len(ords) |-> order_entry(ords[i], invs, mgrs)]
                    \o [i \in 1..Len(standalone) |-> virtual_entry(standalone[i])])

\* GET /api/orders/history
get_orders_history ==
    LET body == orders_with_invoices(orders, invoices, managers)
    IN
    /\ lock = Free
    /\ history' = body
    /\ last' = Response("get_orders_history", 200, "ok", Dec(Len(body)))
    /\ UNCHANGED <<invoices, counters, files, orders, managers, now, lock, loopBlocked,
                   writer, disk, mem, arrived>>

\* the payloads of POST /api/invoices/json where the history is specified:
\* auto-numbered invoices with and without an order
LinkedPayloads == [date : {None}, number : {None}, order_id : {None, OrderId1},
                   file_url : {None}, status : {<<>>}]


(* Start-up and the file writes, one file-system step at a time *)

DB_MANAGERS_FILE == "managers.json"
DB_INVOICES_FILE == "invoices.json"

\* a path of the data directory that names no file
Missing == [exists |-> FALSE, text |-> <<>>]

\* the table files _ensure_db_file creates
TableFiles == {DB_FILE, DB_MANAGERS_FILE, DB_ORDERS_FILE, DB_INVOICES_FILE,
               DB_INVOICE_COUNTERS_FILE}

\* file_path.with_suffix(".tmp")
with_suffix(file_path) ==
    CASE file_path = DB_FILE -> "records.tmp"
      [] file_path = DB_MANAGERS_FILE -> "managers.tmp"
      [] file_path = DB_ORDERS_FILE -> "orders.tmp"
      [] file_path = DB_INVOICES_FILE -> "invoices.tmp"
      [] file_path = DB_INVOICE_COUNTERS_FILE -> "invoice_counters.tmp"

TmpFiles == {with_suffix(file_path) : file_path \in TableFiles}

\* the process at a position, before any write
Process(pc) == [pc |-> pc, io |-> "idle", path |-> "none", text |-> <<>>,
                dest |-> "none", prev |-> Missing, ret |-> "none"]

\* the process at a position of its program, no file open
\* (dest, prev and text stay those of the write that began last)
At(pc) == [writer EXCEPT !.pc = pc, !.io = "idle"]

\* Path.write_text(text) begins: open(path, "w") creates or truncates the file.
\* dest is the table file the write is for: path itself, or the file that
\* path will replace.
write_text(path, text, dest, ret) ==
    /\ disk' = [disk EXCEPT ![path] = FileOf(<<>>)]
    /\ writer' = [pc |-> writer.pc, io |-> "open", path |-> path, text |-> text,
                  dest |-> dest, prev |-> disk[dest], ret |-> ret]

\* the defaults of _seed_default_managers_if_empty as json.dumps receives them
defaults ==
    JList([i \in 1..Len(DefaultManagers) |->
              JDict(<<Pair(<<"i", "d">>, JStr(DefaultManagers[i].id)),
                      Pair(<<"n", "a", "m", "e">>, JStr(DefaultManagers[i].name))>>)])

\* _seed_default_managers_if_empty decides to write the defaults
seeds(file) ==
    LET raw == IF file.exists THEN file.text ELSE <<>>
        r == loads(IF Len(raw) = 0 THEN <<"[", "]">> ELSE raw)
    IN IF ~r.ok THEN TRUE
       ELSE IF r.value.t # "list" THEN TRUE
       ELSE Len(r.value.items) = 0

HasKey(pairs, key) == \E i \in 1..Len(pairs) : pairs[i].key = key

\* the rows of _migrate_add_status_field after its loop
migrated(rows) ==
    [i \in 1..Len(rows) |->
        IF HasKey(rows[i].pairs, <<"s", "t", "a", "t", "u", "s">>) THEN rows[i]
        ELSE JDict(DictPut(rows[i].pairs, <<"s", "t", "a", "t", "u", "s">>, JStr(<<>>)))]

\* needs_save of _migrate_add_status_field, for rows that are dicts
needs_save(rows) == migrated(rows) # rows

\* the server process starts: the module is imported
start ==
    /\ writer.pc = "down"
    /\ writer' = Process("ensure_records")
    /\ UNCHANGED <<invoices, counters, files, orders, managers, now, lock, loopBlocked,
                   arrived, last, disk, mem, history>>

\* one `if not F.exists(): F.write_text(...)` of _ensure_db_file
ensure(pc, file_path, text, ret) ==
    /\ writer.pc = pc
    /\ writer.io = "idle"
    /\ IF disk[file_path].exists
       THEN /\ writer' = At(ret)
            /\ UNCHANGED disk
       ELSE write_text(file_path, text, file_path, ret)
    /\ UNCHANGED <<invoices, counters, files, orders, managers, now, lock, loopBlocked,
                   arrived, last, mem, history>>

\* _ensure_db_file, statement by statement
_ensure_db_file ==
    \/ ensure("ensure_records", DB_FILE, <<"[", "]">>, "ensure_managers")
    \/ ensure("ensure_managers", DB_MANAGERS_FILE, <<"[", "]">>, "seed")
    \/ ensure("ensure_orders", DB_ORDERS_FILE, <<"[", "]">>, "ensure_invoices")
    \/ ensure("ensure_invoices", DB_INVOICES_FILE, <<"[", "]">>, "ensure_counters")
    \/ ensure("ensure_counters", DB_INVOICE_COUNTERS_FILE, <<"{", "}">>, "migrate_orders")

_seed_default_managers_if_empty ==
    /\ writer.pc = "seed"
    /\ writer.io = "idle"
    /\ IF seeds(disk[DB_MANAGERS_FILE])
       THEN write_text(DB_MANAGERS_FILE, dumps(defaults), DB_MANAGERS_FILE, "ensure_orders")
       ELSE /\ writer' = At("ensure_orders")
            /\ UNCHANGED disk
    /\ UNCHANGED <<invoices, counters, files, orders, managers, now, lock, loopBlocked,
                   arrived, last, mem, history>>

\* one half of _migrate_add_status_field: the rows of a table get their status.
\* A load that raises, or a row that is no dict, raises out of the loop: the
\* function swallows the exception and returns.
migrate(pc, file_path, ret) ==
    /\ writer.pc = pc
    /\ writer.io = "idle"
    /\ \E loaded \in {loaded_list(disk[file_path])} :
       \E rows \in {IF loaded.t = "list" THEN loaded.items ELSE <<>>} :
          IF disk[file_path].exists
             /\ (loaded.t = "raised" \/ \E i \in 1..Len(rows) : rows[i].t # "dict")
          THEN /\ writer' = At("serving")
               /\ UNCHANGED disk
          ELSE IF disk[file_path].exists /\ needs_save(rows)
          THEN write_text(with_suffix(file_path), dumps(JList(migrated(rows))),
                          file_path, ret)
          ELSE /\ writer' = At(ret)
               /\ UNCHANGED disk
    /\ UNCHANGED <<invoices, counters, files, orders, managers, now, lock, loopBlocked,
                   arrived, last, mem, history>>

_migrate_add_status_field ==
    \/ migrate("migrate_orders", DB_ORDERS_FILE, "migrate_invoices")
    \/ migrate("migrate_invoices", DB_INVOICES_FILE, "serving")

\* a handler of the running server saves a table: _save_list, _save_records
\* and _save_dict up to the creation of their temporary file
save_begin(file_path, data) ==
    /\ writer.pc = "serving"
    /\ writer.io = "idle"
    /\ write_text(with_suffix(file_path), dumps(data), file_path, "serving")
    /\ UNCHANGED <<invoices, counters, files, orders, managers, now, lock, loopBlocked,
                   arrived, last, mem, history>>

\* write_text goes on: the file receives the text, at once or a first part of
\* it; the call returns once the text is complete, and a temporary file is
\* then due to replace its table
write_text_write ==
    /\ writer.io = "open"
    /\ \E n \in {Len(writer.text) \div 2, Len(writer.text)} :
          /\ n > Len(disk[writer.path].text)
          /\ disk' = [disk EXCEPT ![writer.path] = FileOf(SubSeq(writer.text, 1, n))]
          /\ writer' = IF n < Len(writer.text) THEN writer
                       ELSE IF writer.path = writer.dest THEN At(writer.ret)
                       ELSE [writer EXCEPT !.io = "written"]
    /\ UNCHANGED <<invoices, counters, files, orders, managers, now, lock, loopBlocked,
                   arrived, last, mem, history>>

\* _tmp.replace(file_path): one rename
replace ==
    /\ writer.io = "written"
    /\ disk' = [disk EXCEPT ![writer.dest] = disk[writer.path], ![writer.path] = Missing]
    /\ writer' = At(writer.ret)
    /\ UNCHANGED <<invoices, counters, files, orders, managers, now, lock, loopBlocked,
                   arrived, last, mem, history>>

\* the process dies where it is; the files stay as they are
crash ==
    /\ writer.pc # "down"
    /\ writer' = At("down")
    /\ UNCHANGED <<invoices, counters, files, orders, managers, now, lock, loopBlocked,
                   arrived, last, disk, mem, history>>

\* a row an earlier version of the server saved: it has no status
LegacyRow == JDict(<<Pair(<<"i", "d">>, JStr(<<"o", "0">>))>>)

\* a row as the handlers save it now
StatusRow == JDict(<<Pair(<<"i", "d">>, JStr(<<"o", "1">>)),
                     Pair(<<"s", "t", "a", "t", "u", "s">>, JStr(Shipped))>>)

\* the tables the handlers save where the writes are specified
SaveInputs == {JList(SubSeq(<<StatusRow, StatusRow, StatusRow>>, 1, n)) : n \in 0..MaxRows - 1}

---------------------------------------------------------------------------
(* The state after start-up (_ensure_db_file) *)

Init ==
    /\ invoices = <<>>
    /\ counters = [k \in {} |-> 0]
    /\ files = {}
    /\ orders = <<>>
    /\ managers = DefaultManagers
    /\ now = 0
    /\ lock = Free
    /\ loopBlocked = FALSE
    /\ arrived = {}
    /\ last = Response("none", 0, "none", None)
    /\ disk = [path \in {DB_FILE, DB_ORDERS_FILE, DB_INVOICE_COUNTERS_FILE} |->
                  FileOf(IF path = DB_INVOICE_COUNTERS_FILE THEN <<"{", "}">>
                         ELSE <<"[", "]">>)]
    /\ mem = [path |-> "none", data |-> JNull, by |-> "none"]
    /\ writer = Process("serving")
    /\ history = <<>>

\* the ids the attach and status requests name: that of the first stored invoice
\* and one of none
FirstInvoiceIdArgs ==
    (IF Len(invoices) > 0 THEN {invoices[1].id} ELSE {}) \cup {MissingId}

\* The invoice operations, serialized by _db_lock.
Next ==
    \/ \E date \in DateArgs, number \in NumberArgs :
          create_invoice(None, date, number, None)
    \/ \E payload \in JsonPayloads : create_invoice_json(payload)
    \/ \E date \in DateArgs, reserve \in ReserveArgs :
          preview_next_invoice_number(date, reserve)
    \/ \E id \in FirstInvoiceIdArgs : attach_invoice_file(id, <<"a">>)
    \/ attach_invoice_file_resume
    \/ \E id \in FirstInvoiceIdArgs : update_invoice_status(id, [status |-> Shipped])
    \/ \E id \in InvoiceIdArgs : delete_invoice(id)

Spec == Init /\ [][Next]_vars

\* The async handlers with their uploads, and the event loop they run on.
NextAsync ==
    \/ \E date \in DateArgs, number \in NumberArgs, file \in FileArgs :
          create_invoice(None, date, number, file)
    \/ create_invoice_resume
    \/ \E id \in InvoiceIdArgs : attach_invoice_file(id, <<"a">>)
    \/ attach_invoice_file_resume
    \/ event_loop_blocked

SpecAsync == Init /\ [][NextAsync]_vars

\* Numbering alone: creations with and without a number, previews and
\* reservations, and deletions.
NextNumber ==
    \/ \E payload \in JsonPayloads : create_invoice_json(payload)
    \/ \E date \in DateArgs, reserve \in ReserveInputs :
          preview_next_invoice_number(date, reserve)
    \/ \E id \in InvoiceIdArgs : delete_invoice(id)

SpecNumber == Init /\ [][NextNumber]_vars

\* Reservations alone, on the store as it is after start-up.
NextReserve ==
    \E date \in DateInputs \cup {None}, reserve \in ReserveArgs :
        preview_next_invoice_number(date, reserve)

SpecReserve == Init /\ [][NextReserve]_vars

\* The order upserts of concurrent requests.
NextOrders ==
    \/ \E payload \in OrderPayloads : create_order_begin(payload)
    \/ \E req \in arrived, random_suffix \in RandomSuffixes : create_order(req, random_suffix)
    \/ Tick

SpecOrders == Init /\ [][NextOrders]_vars

\* The status changes and deletes of orders and invoices.
NextStatus ==
    \/ create_order_begin([id |-> OrderId1, company_name |-> <<"A">>, status |-> Bogus])
    \/ \E req \in arrived, random_suffix \in RandomSuffixes : create_order(req, random_suffix)
    \/ create_invoice_json([date |-> None, number |-> Num002, order_id |-> OrderId1,
                            file_url |-> None, status |-> Shipped])
    \/ \E id \in OrderIdArgs, status \in StatusArgs :
          update_order_status(id, [status |-> status])
    \/ \E id \in InvoiceIdArgs, status \in StatusArgs :
          update_invoice_status(id, [status |-> status])
    \/ \E id \in OrderIdArgs : delete_order(id)
    \/ \E id \in InvoiceIdArgs : delete_invoice(id)
    \/ Tick

SpecStatus == Init /\ [][NextStatus]_vars

\* The store functions on their files.
NextStore ==
    \/ \E items \in ListInputs : _save_list(DB_ORDERS_FILE, items)
    \/ _load_list(DB_ORDERS_FILE)
    \/ \E records \in RecordInputs : _save_records(records)
    \/ _load_records
    \/ \E data \in DictInputs : _save_dict(DB_INVOICE_COUNTERS_FILE, data)
    \/ _load_dict(DB_INVOICE_COUNTERS_FILE)

SpecStore == Init /\ [][NextStore]_vars

\* The manager operations.
NextManagers ==
    \/ \E payload \in ManagerPayloads : create_or_update_manager(payload)
    \/ list_managers
    \/ \E id \in ManagerIdArgs : delete_manager(id)

SpecManagers == Init /\ [][NextManagers]_vars

\* Start-up, and saves of the orders table, on a data directory that is empty
\* or holds the orders an earlier version left, with the process free to die at
\* any step.
InitBoot ==
    /\ invoices = <<>>
    /\ counters = [k \in {} |-> 0]
    /\ files = {}
    /\ orders = <<>>
    /\ managers = DefaultManagers
    /\ now = 0
    /\ lock = Free
    /\ loopBlocked = FALSE
    /\ arrived = {}
    /\ last = Response("none", 0, "none", None)
    /\ \E legacy \in {Missing, FileOf(dumps(JList(<<LegacyRow>>)))} :
          disk = [path \in TableFiles \cup TmpFiles |->
                     IF path = DB_ORDERS_FILE THEN legacy ELSE Missing]
    /\ mem = [path |-> "none", data |-> JNull, by |-> "none"]
    /\ writer = Process("down")
    /\ history = <<>>

NextWrite ==
    \/ start
    \/ _ensure_db_file
    \/ _seed_default_managers_if_empty
    \/ _migrate_add_status_field
    \/ \E data \in SaveInputs : save_begin(DB_ORDERS_FILE, data)
    \/ write_text_write
    \/ replace
    \/ crash

SpecWrite == InitBoot /\ [][NextWrite]_vars

\* The loaders alone, on files in every condition a load can meet.
FileInputs ==
    {Missing,
     FileOf(<<>>),
     FileOf(<<" ", Newline>>),
     Denied,
     FileOf(<<"[", Quote, InvalidByte, Quote, "]">>),
     FileOf(<<"[", "1", ",">>),
     FileOf(<<"[", "1", "]">>),
     FileOf(<<"{", Quote, "k", Quote, ":", " ", "1", "}">>),
     FileOf(<<Quote, "a", Quote>>)}

InitLoad ==
    /\ invoices = <<>>
    /\ counters = [k \in {} |-> 0]
    /\ files = {}
    /\ orders = <<>>
    /\ managers = DefaultManagers
    /\ now = 0
    /\ lock = Free
    /\ loopBlocked = FALSE
    /\ arrived = {}
    /\ last = Response("none", 0, "none", None)
    /\ disk \in [{DB_FILE, DB_ORDERS_FILE, DB_INVOICE_COUNTERS_FILE} -> FileInputs]
    /\ mem = [path |-> "none", data |-> JNull, by |-> "none"]
    /\ writer = Process("serving")
    /\ history = <<>>

NextLoad ==
    \/ _load_list(DB_ORDERS_FILE)
    \/ _load_records
    \/ _load_dict(DB_INVOICE_COUNTERS_FILE)

SpecLoad == InitLoad /\ [][NextLoad]_vars

\* Orders and invoices created and orders deleted, and the history read.
NextHistory ==
    \/ create_order_begin([id |-> OrderId1, company_name |-> <<"A">>, status |-> <<>>])
    \/ \E req \in arrived, random_suffix \in RandomSuffixes : create_order(req, random_suffix)
    \/ \E payload \in LinkedPayloads : create_invoice_json(payload)
    \/ \E id \in OrderIdArgs : delete_order(id)
    \/ get_orders_history
    \/ Tick

SpecHistory == Init /\ [][NextHistory]_vars

---------------------------------------------------------------------------
(* Invoice numbering *)

Key2024_03 == <<"2", "0", "2", "4", "-", "0", "3">>
Key2025_03 == <<"2", "0", "2", "5", "-", "0", "3">>
Num001 == <<"0", "3", "-", "0", "0", "1">>
Num003 == <<"0", "3", "-", "0", "0", "3">>

\* the number that carries sequence n of the period with counter key k
NumberUnder(k, n) == SubSeq(k, 6, 7) \o <<"-">> \o Fmt(n, 3)

\* the step reserves under key k: it writes k's entry of the counters file
Reserves(k) == k \in DOMAIN counters' /\ counters'[k] # CounterGet(counters, k)

\* the highest sequence an invoice of the list carries under the month prefix of
\* key k, 0 when there is none
HighestStored(k) ==
    SetMax({0} \cup {IntOf(SubSeq(invoices[i].number, 4, Len(invoices[i].number))) :
                       i \in {j \in 1..Len(invoices) :
                                /\ Len(invoices[j].number) > 3
                                /\ SubSeq(invoices[j].number, 1, 3) = SubSeq(k, 6, 7) \o <<"-">>
                                /\ CanInt(SubSeq(invoices[j].number, 4,
                                                 Len(invoices[j].number)))}})

\* C1: in every reachable state no two invoices of the list carry the same
\* number, whatever mix of auto-numbered and explicitly numbered creates,
\* reservations, attaches, status changes and deletes led there.
C1_UniqueNumbers ==
    \A i, j \in 1..Len(invoices) :
        i # j => invoices[i].number # invoices[j].number

\* C1 case: two auto-numbered invoices dated in March of different years, which
\* share the month prefix, stand in the list with different numbers.
C1_Witness ==
    /\ Len(invoices) = 2
    /\ invoices[1].date.year # invoices[2].date.year
    /\ invoices[1].number = Num001
    /\ invoices[2].number = <<"0", "3", "-", "0", "0", "2">>
    /\ Key2024_03 \in DOMAIN counters
    /\ Key2025_03 \in DOMAIN counters

\* C2 (as the specification states it): a number the sequencer issues under one
\* period is never the number it last issued under a different period of the
\* same month, i.e. the same month of another year.
C2_DistinctAcrossYears ==
    [][\A k \in DOMAIN counters' :
          Reserves(k) =>
              \A other \in DOMAIN counters :
                  (other # k /\ SubSeq(other, 6, 7) = SubSeq(k, 6, 7))
                      => last'.number # NumberUnder(other, counters[other])]_vars

\* C3 (as the specification states it): every reservation for a period that
\* has had one returns a number different from the previous one and a sequence
\* exactly 1 greater than the previous reservation's, whatever invoice operations
\* ran in between.
C3_ExactlyOneGreater ==
    [][\A k \in DOMAIN counters :
          Reserves(k) =>
              /\ last'.number # NumberUnder(k, counters[k])
              /\ last'.number = NumberUnder(k, counters[k] + 1)]_vars

\* C3 (amended): every reservation for a period returns the number of the
\* sequence it stores, which is strictly greater than the sequence of the
\* period's previous reservation: 1 greater than the larger of that sequence
\* and the highest sequence an invoice of the list carries under the month
\* prefix.
C3_StrictlyGreater ==
    [][\A k \in DOMAIN counters' :
          Reserves(k) =>
              /\ last'.number = NumberUnder(k, counters'[k])
              /\ counters'[k] > CounterGet(counters, k)
              /\ counters'[k] = Max(CounterGet(counters, k), HighestStored(k)) + 1]_vars

\* C3 case: after a reservation of 03-001 for 2024-03 and an explicit create of
\* 03-002, the next reservation for 2024-03 has returned 03-003.
C3_Witness ==
    /\ last.op = "next_number_reserve"
    /\ last.number = Num003
    /\ Key2024_03 \in DOMAIN counters
    /\ counters[Key2024_03] = 3
    /\ \E i \in 1..Len(invoices) : invoices[i].number = Num002

\* C4: from an empty list and empty counters, with reservations only, the
\* first reservation for a period returns MM-001 and each further one the
\* sequence after the period's previous one, zero-padded to three digits: the
\* n-th returns MM-00n.
C4_NthReservation ==
    /\ (invoices = <<>> /\ counters = [k \in {} |-> 0])
    /\ [][\A date \in DateInputs \cup {None}, reserve \in ReserveArgs :
            (preview_next_invoice_number(date, reserve) /\ counters' # counters) =>
                LET when == _parse_iso_date_or_now(date)
                    key == Fmt(when.year, 4) \o <<"-">> \o Fmt(when.month, 2)
                    n == CounterGet(counters, key) + 1
                IN /\ counters' = CounterPut(counters, key, n)
                   /\ last'.number = Fmt(when.month, 2) \o <<"-">> \o ZeroPad(Dec(n), 3)]_vars

\* C4 case: the second reservation for 2024-03 has returned 03-002 and the
\* first for 2024-11 has left its counter at 1.
C4_Witness ==
    /\ invoices = <<>>
    /\ last.op = "next_number_reserve"
    /\ last.number = Num002
    /\ Key2024_03 \in DOMAIN counters
    /\ counters[Key2024_03] = 2
    /\ <<"2", "0", "2", "4", "-", "1", "1">> \in DOMAIN counters

\* the response and the state of a create refused for its duplicate number
DuplicateRefused ==
    /\ last'.status = 400
    /\ last'.detail = "Invoice number already exists"
    /\ invoices' = invoices
    /\ counters' = counters
    /\ files' = files

\* the stripped explicit number is carried by an invoice of the list
Stored(number) ==
    /\ number # None
    /\ Len(Strip(number)) > 0
    /\ \E i \in 1..Len(invoices) : invoices[i].number = Strip(number)

\* C5: a create that names a number an invoice of the list already carries is
\* answered 400 "Invoice number already exists" and leaves the list, the
\* counters and the stored files as they were; on the multipart endpoint and on
\* the JSON endpoint.
C5_DuplicateRejected ==
    [][/\ \A date \in DateArgs, number \in NumberArgs :
            (Stored(number) /\ create_invoice(None, date, number, None))
                => DuplicateRefused
       /\ \A payload \in JsonPayloads :
            (Stored(payload.number) /\ create_invoice_json(payload))
                => DuplicateRefused]_vars

\* C5 case: the JSON endpoint has refused a create whose number the first
\* invoice of the list carries.
C5_Witness ==
    /\ last.op = "create_invoice_json"
    /\ last.status = 400
    /\ last.detail = "Invoice number already exists"
    /\ Len(invoices) > 0
    /\ invoices[1].number = Num002

\* C10: no step lowers or drops a counter; a reservation raises the counter of
\* its period and leaves the others; a reserving request always reserves; and
\* previews, explicitly numbered creates, attaches, status changes and deletes
\* leave every counter as it was.
C10_CountersMonotonic ==
    [][/\ \A k \in DOMAIN counters : k \in DOMAIN counters' /\ counters'[k] >= counters[k]
       /\ \A k \in DOMAIN counters' :
            Reserves(k) =>
                /\ counters'[k] > CounterGet(counters, k)
                /\ \A other \in DOMAIN counters' \ {k} :
                       other \in DOMAIN counters /\ counters'[other] = counters[other]
       /\ (last' # last /\ last'.op = "next_number_reserve") => counters' # counters
       /\ counters' # counters =>
            /\ last'.op \in {"next_number_reserve", "create_invoice", "create_invoice_json"}
            /\ \A date \in DateArgs, number \in NumberArgs :
                   HasNumber(number) => ~create_invoice(None, date, number, None)
            /\ \A payload \in JsonPayloads :
                   HasNumber(payload.number) => ~create_invoice_json(payload)]_vars

\* C10 case: both March periods have a counter, that of 2024-03 has been
\* raised twice, and a delete has just removed an invoice.
C10_Witness ==
    /\ last.op = "delete_invoice"
    /\ last.status = 200
    /\ Key2024_03 \in DOMAIN counters
    /\ Key2025_03 \in DOMAIN counters
    /\ counters[Key2024_03] >= 2

---------------------------------------------------------------------------
(* Managers, orders and statuses *)

\* C6 (as the specification states it): deleting a manager id that is not in
\* the table is answered 404 and leaves the table as it was; deleting one that
\* is in the table removes that one entry and returns the new count.
C6_DeleteManager ==
    [][\A id \in ManagerIdArgs :
          delete_manager(id) =>
              LET i == IndexOfId(managers, id)
              IN IF i = 0
                 THEN last'.status = 404 /\ managers' = managers
                 ELSE /\ last'.status = 200
                      /\ managers' = RemoveAt(managers, i)
                      /\ last'.number = Dec(Len(managers) - 1)]_vars

\* no two orders of the table share an id
UniqueOrderIds(rows) ==
    \A i, j \in 1..Len(rows) : i # j => rows[i].id # rows[j].id

\* C7 (as the specification states it): an upsert of an id the table holds
\* keeps the row's created_at, stamps updated_at with the time of this later
\* write (a time not before the row's creation nor before its previous write),
\* replaces the row where it stands and leaves the number of rows as it was;
\* and no two rows ever share an id.
C7_UpsertInPlace ==
    [][\A req \in arrived, random_suffix \in RandomSuffixes :
          create_order(req, random_suffix) =>
              LET i == IndexOfId(orders, last'.number)
              IN /\ UniqueOrderIds(orders')
                 /\ i # 0 =>
                      /\ Len(orders') = Len(orders)
                      /\ orders'[i].id = orders[i].id
                      /\ \A j \in 1..Len(orders) : j # i => orders'[j] = orders[j]
                      /\ orders'[i].created_at = orders[i].created_at
                      /\ orders'[i].updated_at >= orders[i].updated_at
                      /\ orders'[i].updated_at >= orders'[i].created_at]_vars

\* the part of C7 the code keeps: created_at, the row's place, the number of
\* rows and the uniqueness of the ids
C7_KeptByUpsert ==
    [][\A req \in arrived, random_suffix \in RandomSuffixes :
          create_order(req, random_suffix) =>
              LET i == IndexOfId(orders, last'.number)
              IN /\ UniqueOrderIds(orders')
                 /\ i # 0 =>
                      /\ Len(orders') = Len(orders)
                      /\ orders'[i].id = orders[i].id
                      /\ \A j \in 1..Len(orders) : j # i => orders'[j] = orders[j]
                      /\ orders'[i].created_at = orders[i].created_at
                      /\ orders'[i].updated_at = req.now_iso]_vars

\* the statuses of the enumeration, as the specification lists them
StatusEnumeration ==
    {<<>>,
     <<"p", "r", "o", "d", "u", "c", "t", "i", "o", "n">>,
     <<"w", "a", "i", "t", "i", "n", "g">>,
     <<"s", "h", "i", "p", "p", "e", "d">>,
     <<"r", "e", "j", "e", "c", "t", "e", "d">>}

\* the response and the state of a status change refused for its status
StatusRefused ==
    /\ last'.status = 400
    /\ last'.detail = "Invalid status"
    /\ orders' = orders
    /\ invoices' = invoices

\* C9 (as the specification states it): a status change of a stored order or
\* of a stored invoice to a status outside the enumeration is answered 400
\* Invalid status and leaves the targeted row and the tables as they were.
C9_OutsideEnumerationRefused ==
    [][\A status \in StatusArgs :
          status \notin StatusEnumeration =>
              /\ \A i \in 1..Len(orders) :
                     update_order_status(orders[i].id, [status |-> status])
                         => StatusRefused
              /\ \A i \in 1..Len(invoices) :
                     update_invoice_status(invoices[i].id, [status |-> status])
                         => StatusRefused]_vars

\* C9 (amended): a status change of an order or of an invoice to a status that,
\* stripped of the whitespace around it, is outside the enumeration is answered
\* 400 Invalid status and leaves the tables, the status and updated_at of every
\* row included, as they were.
C9_StrippedOutsideRefused ==
    [][\A status \in StatusArgs :
          Strip(status) \notin StatusEnumeration =>
              /\ \A id \in OrderIdArgs :
                     update_order_status(id, [status |-> status]) => StatusRefused
              /\ \A id \in InvoiceIdArgs :
                     update_invoice_status(id, [status |-> status]) => StatusRefused]_vars

\* C9 case: a status change has been refused while an order and an invoice
\* stand in their tables, the order written at an earlier time than now.
C9_Witness ==
    /\ last.status = 400
    /\ last.detail = "Invalid status"
    /\ last.op \in {"update_order_status", "update_invoice_status"}
    /\ Len(orders) > 0
    /\ Len(invoices) > 0
    /\ orders[1].updated_at < now

---------------------------------------------------------------------------
(* The flat-file store *)

\* C8: the load of a path that follows a save to it returns data equal to the
\* data saved, and a further load returns the same again: lists through
\* _save_list/_load_list and _save_records/_load_records, dicts through
\* _save_dict/_load_dict.
C8_RoundTrip ==
    [][/\ mem'.by = "save" =>
            mem'.data = IF mem'.path = DB_INVOICE_COUNTERS_FILE
                        THEN loaded_dict(disk'[mem'.path])
                        ELSE loaded_list(disk'[mem'.path])
       /\ (mem'.by = "load" /\ mem'.path = mem.path) => mem'.data = mem.data]_vars

\* C8 case: a list of two rows, one with quotes, backslashes and line breaks in
\* its strings and with nested lists and dicts, has been saved and loaded back,
\* and so has a dict of two counters.
C8_Witness ==
    /\ mem.path = DB_ORDERS_FILE
    /\ mem.by = "load"
    /\ mem.data.t = "list"
    /\ Len(mem.data.items) = 2
    /\ \E i \in 1..2 : \E j \in 1..Len(mem.data.items[i].pairs) :
           mem.data.items[i].pairs[j].value = JStr(OddString)
    /\ disk[DB_ORDERS_FILE].text = dumps(mem.data)
    /\ Len(loaded_dict(disk[DB_INVOICE_COUNTERS_FILE]).pairs) = 2


\* C11: every write of a table file is atomic, start-up seeding and file
\* initialisation included: once the process has died, the table file of the
\* write that began last holds its complete previous content or its complete
\* new content.
C11_AtomicWrites ==
    (writer.pc = "down" /\ writer.dest # "none") =>
        disk[writer.dest] \in {writer.prev, FileOf(writer.text)}

\* the empty container of the shape a path's loader returns
EmptyOf(path) == IF path = DB_INVOICE_COUNTERS_FILE THEN JDict(<<>>) ELSE JList(<<>>)

\* C12: _load_list, _load_records and _load_dict never raise: they return the
\* empty container of their shape for a file that is missing, empty, not to
\* be read (I/O or decoding failure), no JSON, or JSON of another top-level
\* shape, and the parsed structure otherwise.
C12_LoadsNeverRaise ==
    mem.by = "load" =>
        LET file == disk[mem.path]
            r == loads(file.text)
        IN /\ mem.data.t # "raised"
           /\ mem.data = IF ~file.exists \/ file \notin {FileOf(file.text)} THEN EmptyOf(mem.path)
                         ELSE IF \E i \in 1..Len(file.text) : file.text[i] = InvalidByte
                         THEN EmptyOf(mem.path)
                         ELSE IF ~r.ok THEN EmptyOf(mem.path)
                         ELSE IF r.value.t # EmptyOf(mem.path).t THEN EmptyOf(mem.path)
                         ELSE r.value

\* the number a step hands out: that of the response, or that of the coroutine
\* the step suspends
Returned == IF lock' # lock THEN lock'.number ELSE last'.number

\* C14: a reservation for date D returns month(D), a dash and s = max(c, m) + 1
\* padded to three digits, c being the counter stored under D's YYYY-MM key
\* (0 if absent) and m the highest sequence an invoice of the list carries
\* under D's month prefix (0 if none); it stores s under that key and changes
\* no other key; and the number it returns is the number of no invoice that
\* is in the list at that moment.
C14_ReservationRule ==
    [][/\ \A k \in DOMAIN counters' :
            Reserves(k) =>
                LET s == Max(CounterGet(counters, k), HighestStored(k)) + 1
                IN /\ Returned = NumberUnder(k, s)
                   /\ counters'[k] = s
                   /\ DOMAIN counters' = DOMAIN counters \cup {k}
                   /\ \A other \in DOMAIN counters \ {k} : counters'[other] = counters[other]
                   /\ \A i \in 1..Len(invoices) : invoices[i].number # Returned
       /\ (counters' # counters /\ last'.op = "next_number_reserve") =>
            \A date \in DateArgs, reserve \in ReserveInputs :
                preview_next_invoice_number(date, reserve) =>
                    LET when == _parse_iso_date_or_now(date)
                    IN Reserves(Fmt(when.year, 4) \o <<"-">> \o Fmt(when.month, 2))]_vars

\* C14 case: with 1 stored under 2024-03 and an invoice 03-002 in the list, a
\* reservation for March 2025 has returned 03-003, stored 3 under 2025-03 and
\* left the counter of 2024-03.
C14_Witness ==
    /\ last.op = "next_number_reserve"
    /\ last.number = Num003
    /\ DOMAIN counters = {Key2024_03, Key2025_03}
    /\ counters[Key2024_03] = 1
    /\ counters[Key2025_03] = 3
    /\ \E i \in 1..Len(invoices) : invoices[i].number = Num002

\* the values of reserve that ask for a reservation
ReserveWords == {<<"1">>, <<"t", "r", "u", "e">>, <<"y", "e", "s">>}

\* C15 (as claimed): GET /api/invoices/next-number with a reserve that is given
\* and is not one of 1, true, yes returns the month prefix with the highest
\* sequence of the list under that prefix plus one and leaves the counters and
\* the invoice list unchanged.
C15_OptOutPreviews ==
    [][\A date \in DateArgs, reserve \in ReserveInputs \ ({None} \cup ReserveWords) :
          (/\ last' # last
           /\ last'.op \in {"next_number_preview", "next_number_reserve"}
           /\ preview_next_invoice_number(date, reserve)) =>
              /\ counters' = counters
              /\ invoices' = invoices]_vars

\* C15 (amended): GET /api/invoices/next-number with a reserve that is given
\* and, in lower case, is not one of 1, true, yes returns the month prefix with
\* the highest sequence of the list under that prefix plus one, padded to
\* three digits, and leaves the counters and the invoice list unchanged, so
\* that the same preview made again returns the same number; with reserve
\* omitted the call reserves.
C15_PreviewFrame ==
    [][\A date \in DateArgs, reserve \in ReserveInputs :
          (/\ last' # last
           /\ last'.op \in {"next_number_preview", "next_number_reserve"}
           /\ preview_next_invoice_number(date, reserve)) =>
              LET when == _parse_iso_date_or_now(date)
                  k == Fmt(when.year, 4) \o <<"-">> \o Fmt(when.month, 2)
              IN /\ (reserve # None /\ Lower(reserve) \notin ReserveWords) =>
                        /\ last'.op = "next_number_preview"
                        /\ last'.number = NumberUnder(k, HighestStored(k) + 1)
                        /\ counters' = counters
                        /\ invoices' = invoices
                        /\ _next_invoice_number(invoices', when) = last'.number
                 /\ reserve = None =>
                        /\ last'.op = "next_number_reserve"
                        /\ Reserves(k)]_vars

\* C15 case: with 03-002 in the list and nothing reserved, a preview has
\* returned 03-003 and no counter exists.
C15_Witness ==
    /\ last.op = "next_number_preview"
    /\ last.number = Num003
    /\ DOMAIN counters = {}
    /\ \E i \in 1..Len(invoices) : invoices[i].number = Num002

---------------------------------------------------------------------------
(* The global lock *)

\* C13: a request that takes _db_lock runs its whole sequence and releases
\* the lock, so that every waiter acquires it in the end: whenever a coroutine
\* of create_invoice or attach_invoice_file holds the lock across its await
\* of the file read, it can resume and release the lock.
C13_HolderReleases ==
    lock # Free => ENABLED (create_invoice_resume \/ attach_invoice_file_resume)

---------------------------------------------------------------------------
(* Deletion, history, time stamps and invoice ids *)

\* rows is table without the first of its rows whose id is id, and holds no
\* row with that id
FirstRemoved(table, rows, id) ==
    /\ \E k \in 1..Len(table) :
          /\ table[k].id = id
          /\ \A j \in 1..(k - 1) : table[j].id # id
          /\ rows = [i \in 1..(Len(table) - 1) |-> IF i < k THEN table[i] ELSE table[i + 1]]
    /\ \A i \in 1..Len(rows) : rows[i].id # id

\* C16: DELETE /api/orders/{id} and DELETE /api/invoices/{id} answer 404 and
\* leave the table when no row has the id; otherwise exactly one row, the
\* first with that id, is removed, the other rows keep their content and
\* order, and no row with that id remains in the table.
C16_DeleteById ==
    [][/\ \A id \in InvoiceIdArgs :
            (last'.op = "delete_invoice" /\ delete_invoice(id)) =>
                IF \A i \in 1..Len(invoices) : invoices[i].id # id
                THEN last'.status = 404 /\ invoices' = invoices
                ELSE last'.status = 200 /\ FirstRemoved(invoices, invoices', id)
       /\ \A id \in OrderIdArgs :
            (last'.op = "delete_order" /\ delete_order(id)) =>
                IF \A i \in 1..Len(orders) : orders[i].id # id
                THEN last'.status = 404 /\ orders' = orders
                ELSE last'.status = 200 /\ FirstRemoved(orders, orders', id)]_vars

\* the places of an invoice in a history: entry and position
Shown(h, inv) ==
    {p \in {<<e, j>> : e \in 1..Len(h), j \in 1..MaxInvoices} :
        /\ p[2] <= Len(h[p[1]].invoices)
        /\ h[p[1]].invoices[p[2]].id = inv.id}

\* C17: the orders history shows every invoice in exactly one entry, that of
\* the order its order_id names, or the entry no_order_<invoice id> of its
\* own when it names none; and the entries are in descending order of
\* created_at.
C17_HistoryShowsAll ==
    [][get_orders_history =>
          /\ \A i \in 1..Len(invoices) :
                /\ Cardinality(Shown(history', invoices[i])) = 1
                /\ \A p \in Shown(history', invoices[i]) :
                      history'[p[1]].id =
                          IF invoices[i].order_id \in {None, <<>>}
                          THEN <<"n", "o", "_", "o", "r", "d", "e", "r", "_">> \o invoices[i].id
                          ELSE invoices[i].order_id
          /\ \A a, b \in 1..Len(history') :
                a < b => history'[a].created_at >= history'[b].created_at]_vars

\* the rows of a table that a step writes: those it adds and those it changes
\* in place
Written(table, rows) ==
    IF Len(rows) < Len(table) THEN {}
    ELSE {i \in 1..Len(rows) : i > Len(table) \/ rows[i] # table[i]}

\* a written row carries the time of the write as updated_at, and as
\* created_at too when the write inserts it; created_at is kept otherwise
Stamped(table, rows) ==
    \A i \in Written(table, rows) :
        /\ "updated_at" \in DOMAIN rows[i]
        /\ rows[i].updated_at = now
        /\ rows[i].created_at = IF i > Len(table) THEN now ELSE table[i].created_at

\* C18: every write of an order row or an invoice row stamps it: created_at
\* is set by the insert and kept by every later write, and updated_at is set
\* to the time of the write by every write, invoice creation, file attachment
\* and status changes included.
C18_WritesStamp ==
    [][Stamped(invoices, invoices') /\ Stamped(orders, orders')]_vars

\* C19: after any sequence of creations and deletions, creations with one
\* date included, no two invoices of the list carry the same id, so that a
\* PATCH or DELETE by id addresses exactly one invoice.
C19_UniqueInvoiceIds ==
    \A i, j \in 1..Len(invoices) :
        i # j => invoices[i].id # invoices[j].id

=============================================================================
